---- MODULE Spec2Model ----
(***************************************************************************)
(* The account ledger and cooldown-gated commands of the Discord economy   *)
(* bot (src/main.py): register, balance, work, daily, weekly, monthly,     *)
(* coinflip, deposit, withdraw and the placeholder commands.               *)
(*                                                                         *)
(* Every command handler is a coroutine on one asyncio event loop.  A      *)
(* handler runs without interruption from its dispatch to its only         *)
(* suspending await, interaction.response.send_message(...), and returns   *)
(* when that await completes.  One action per handler models the first     *)
(* stretch; Sent models the completion of the await.  Other handlers may   *)
(* run while a handler is suspended in send_message.                       *)
(*                                                                         *)
(* Time is counted in ticks of 1/TicksPerSecond seconds, so that           *)
(* time.time() can return sub-second readings.                             *)
(***************************************************************************)
EXTENDS Integers, Sequences, FiniteSets, TLC

\* ---------------------------------------------------------------- bounds
\* Clock resolution: ticks per second.
TicksPerSecond == 2

\* Number of command invocations dispatched in one run.
MaxIssued == 3

\* Number of command invocations dispatched in one run of the scenario.
ScenarioIssued == 5

\* Number of command invocations dispatched in one run of the round trips.
RoundTripIssued == 4

\* ------------------------------------------------------ program constants
WORK_COOLDOWN_SECONDS == 60
DAILY_COOLDOWN_SECONDS == 86400
WEEKLY_COOLDOWN_SECONDS == 604800
MONTHLY_COOLDOWN_SECONDS == 2592000

starter_cash == 500

WorkPayMin == 100
WorkPayMax == 600
DailyRewardMin == 5000
DailyRewardMax == 10000
WeeklyRewardMin == 30000
WeeklyRewardMax == 50000
MonthlyRewardMin == 150000
MonthlyRewardMax == 300000

\* ------------------------------------------------------------ input sets
\* Caller identities (interaction.user.id).
Users == {"u1", "u2"}

\* The caller of the cooldown specification.
CooldownUsers == {"u1"}

\* Handler tasks that can be in flight at the same time.
Tasks == {"t1", "t2"}

\* The amount parameter of coinflip, deposit and withdraw.
Amounts == {-1, 0, 100, 500}

heads == <<"h", "e", "a", "d", "s">>
tails == <<"t", "a", "i", "l", "s">>

\* The choice parameter of coinflip, as sequences of characters.
Choices == {heads, <<"T", "A", "I", "L", "S">>, <<"e", "d", "g", "e">>}

\* Spellings of the choice parameter: heads and tails in lower, upper and
\* mixed case, and strings that are neither: another word, a prefix, an
\* extension, a trailing space, a misspelling and the empty string.
ChoiceSpellings ==
    {heads, tails,
     <<"H", "E", "A", "D", "S">>, <<"H", "e", "a", "d", "s">>,
     <<"T", "a", "i", "l", "s">>, <<"t", "A", "i", "L", "s">>,
     <<"e", "d", "g", "e">>, <<"h", "e", "a", "d">>,
     <<"h", "e", "a", "d", "s", "s">>, <<"h", "e", "a", "d", "s", " ">>,
     <<"t", "a", "l", "i", "s">>, <<>>}

Kinds == {"work", "daily", "weekly", "monthly"}

\* Arguments of format_cooldown: zero, and the seconds at and next to a whole
\* minute, a whole hour, an hour and a minute, a day and a month.
FormatSeconds ==
    {0, 1, 59, 60, 61, 119, 120, 3599, 3600, 3601, 3659, 3660, 3661, 7200,
     86399, 86400, 90061, 2591999, 2592000}

\* The account field that holds the cooldown timestamp of a timed command.
LastField(K) == CASE K = "work" -> "last_work"
                  [] K = "daily" -> "last_daily"
                  [] K = "weekly" -> "last_weekly"
                  [] K = "monthly" -> "last_monthly"

\* The cooldown of a timed command, in seconds.
CooldownSeconds(K) == CASE K = "work" -> WORK_COOLDOWN_SECONDS
                        [] K = "daily" -> DAILY_COOLDOWN_SECONDS
                        [] K = "weekly" -> WEEKLY_COOLDOWN_SECONDS
                        [] K = "monthly" -> MONTHLY_COOLDOWN_SECONDS

\* Seconds to ticks.
Ticks(seconds) == seconds * TicksPerSecond

\* The first reading at which every timed command is ready on a new account.
T0 == Ticks(MONTHLY_COOLDOWN_SECONDS)

\* A reading at which a cooldown of each kind can end: the cooldown of kind K
\* that starts at T1 - Ticks(CooldownSeconds(K)) ends at T1, and a new account
\* is ready for K at that start.
T1 == 2 * T0

\* Readings of time.time() around the end of a cooldown of kind K: the start
\* of the cooldown that ends at T1, and the readings one second before, one
\* tick before and exactly at T1.
CooldownReadings(K) ==
    {T1 - Ticks(CooldownSeconds(K)), T1 - TicksPerSecond, T1 - 1, T1}

\* Readings of time.time() around the first reading at which a new account is
\* ready for kind K: one tick before the interval of K has passed since the
\* epoch, and exactly then.
FirstUseReadings(K) ==
    {Ticks(CooldownSeconds(K)) - 1, Ticks(CooldownSeconds(K))}

\* Readings of time.time() at which the cooldowns of daily and of work that
\* end at T1 start, and T1.
AdvancingReadings ==
    {T1 - Ticks(DAILY_COOLDOWN_SECONDS), T1 - Ticks(WORK_COOLDOWN_SECONDS), T1}

\* The readings of the ledger specification: at the epoch no new account is
\* ready for any timed command, at T0 it is ready for all of them.
LedgerReadings == {0, T0}

VARIABLES
    user_data,  \* the dict user_id -> account (DOMAIN = registered users)
    clock,      \* the wall clock, what time.time() returns, in ticks
    tasks,      \* per task: the handler in flight and its local variables
    issued,     \* number of invocations dispatched so far
    readings,   \* the readings the wall clock takes in this run
    budget      \* the number of invocations dispatched in this run

vars == <<user_data, clock, tasks, issued, readings, budget>>

\* ------------------------------------------------------------ pure helpers
\* str.lower() on the characters the choices use.
UpperChars == <<"A", "D", "E", "G", "H", "I", "L", "S", "T">>
LowerChars == <<"a", "d", "e", "g", "h", "i", "l", "s", "t">>

lower_char(c) ==
    IF \E i \in DOMAIN UpperChars : UpperChars[i] = c
    THEN LowerChars[CHOOSE i \in DOMAIN UpperChars : UpperChars[i] = c]
    ELSE c

\* Mutant of lower: the string is left as it is.
lower_missing(s) == s

lower(s) == [i \in DOMAIN s |-> lower_char(s[i])]

\* int(x) of a float x given in ticks: truncation toward zero, in seconds.
int(x) == IF x >= 0 THEN x \div TicksPerSecond ELSE -((-x) \div TicksPerSecond)

\* divmod(a, b) for b > 0.
divmod(a, b) == <<a \div b, a % b>>

\* Mutant of format_cooldown: seconds are shown only when they are not zero.
format_cooldown_nonzero(seconds) ==
    LET m1 == divmod(seconds, 60)
        s == m1[2]
        h1 == divmod(m1[1], 60)
        hours == h1[1]
        minutes == h1[2]
        p1 == IF hours > 0 THEN <<<<hours, "h">>>> ELSE <<>>
        p2 == IF minutes > 0 THEN Append(p1, <<minutes, "m">>) ELSE p1
        p3 == IF s > 0 THEN Append(p2, <<s, "s">>) ELSE p2
    IN p3

\* format_cooldown: the parts of the "Hh Mm Ss" string, in order.
format_cooldown(seconds) ==
    LET m1 == divmod(seconds, 60)
        s == m1[2]
        h1 == divmod(m1[1], 60)
        hours == h1[1]
        minutes == h1[2]
        p1 == IF hours > 0 THEN <<<<hours, "h">>>> ELSE <<>>
        p2 == IF minutes > 0 THEN Append(p1, <<minutes, "m">>) ELSE p1
        p3 == IF s > 0 \/ p2 = <<>> THEN Append(p2, <<s, "s">>) ELSE p2
    IN p3

\* Mutant of randint: the upper end is off by one.
randint_wide(a, b) == a..(b + 1)

\* random.randint(a, b): every integer of the inclusive range.
randint(a, b) == a..b

\* The draws of randint(a, b) the model follows: the values at and next to
\* the two ends that randint can return.
Draws(a, b) == {r \in {a - 1, a, b, b + 1} : r \in randint(a, b)}

\* get_user_data: the account, or None.
None == [none |-> TRUE]

\* Mutant of NewAccount: every cooldown starts at registration.
NewAccountOnCooldown ==
    [cash |-> starter_cash, bank |-> 0, last_work |-> clock,
     last_daily |-> clock, last_weekly |-> clock, last_monthly |-> clock]

\* Mutant of NewAccount: the daily cooldown starts at registration.
NewAccountStamped ==
    [cash |-> starter_cash, bank |-> 0, last_work |-> 0,
     last_daily |-> clock, last_weekly |-> 0, last_monthly |-> 0]

\* The account register_command creates.
NewAccount ==
    [cash |-> starter_cash, bank |-> 0, last_work |-> 0,
     last_daily |-> 0, last_weekly |-> 0, last_monthly |-> 0]

\* Mutant of get_user_data: a missing account is initialised on lookup.
get_user_data_or_init(user_id) ==
    IF user_id \notin DOMAIN user_data THEN NewAccount ELSE user_data[user_id]

get_user_data(user_id) ==
    IF user_id \notin DOMAIN user_data THEN None ELSE user_data[user_id]

\* Mutant of OnCooldown: the cooldown length is not added.
OnCooldownNoInterval(current_time, last, K) == current_time < last

\* Mutant of OnCooldown: the end of the cooldown is still blocked.
OnCooldownInclusive(current_time, last, K) ==
    current_time <= last + Ticks(CooldownSeconds(K))

\* Mutant of OnCooldown: the cooldown is one second short.
OnCooldownShort(current_time, last, K) ==
    current_time < last + Ticks(CooldownSeconds(K) - 1)

\* Mutant of OnCooldown: every kind is tested with the cooldown of work.
OnCooldownOfWork(current_time, last, K) ==
    current_time < last + Ticks(WORK_COOLDOWN_SECONDS)

\* The cooldown test of the timed handlers: current_time < last + COOLDOWN.
OnCooldown(current_time, last, K) ==
    current_time < last + Ticks(CooldownSeconds(K))

\* ------------------------------------------------------------------ tasks
\* A task with no handler in flight.  The fields are the handler's parameters
\* (user, choice, amount, member), its local variables (current_time, last_time,
\* remaining, payout, coin_result) and what its message shows (msg, text,
\* shown_cash, shown_bank).
Idle == [pc |-> "idle", user |-> "", cmd |-> "", choice |-> <<>>, amount |-> 0,
         member |-> "",
         current_time |-> 0, last_time |-> 0, msg |-> "", remaining |-> 0,
         text |-> <<>>, payout |-> 0, coin_result |-> <<>>,
         shown_cash |-> 0, shown_bank |-> 0]

\* The handler of task p was dispatched for user u and has run to its
\* send_message with the given message; f are its other fields.
Sending(p, u, cmd, msg, f) ==
    tasks' = [tasks EXCEPT ![p] =
                [pc |-> "sending", user |-> u, cmd |-> cmd, msg |-> msg] @@ f @@ Idle]

\* A handler is dispatched on a free task.
Dispatch(p) ==
    /\ tasks[p].pc = "idle"
    /\ issued < budget
    /\ issued' = issued + 1
    /\ UNCHANGED <<clock, readings, budget>>

\* check_registration: False (after sending the error) iff no account.
check_registration(u) == get_user_data(u) # None

\* Mutant of NotRegistered: the handler returns without a message.
NotRegisteredSilent(p, u, cmd, f) == UNCHANGED <<tasks, user_data>>

\* Mutant of NotRegistered: the sign of the amount is tested before the
\* registration.
NotRegisteredAfterAmount(p, u, cmd, f) ==
    /\ Sending(p, u, cmd,
               IF cmd \in {"coinflip", "deposit", "withdraw"} /\ f.amount <= 0
               THEN "BetNotPositive" ELSE "NotRegistered", f)
    /\ UNCHANGED user_data

\* The handler returns after check_registration has sent its message.
NotRegistered(p, u, cmd, f) ==
    /\ Sending(p, u, cmd, "NotRegistered", f)
    /\ UNCHANGED user_data

\* ---------------------------------------------------------------- actions
\* Mutant of AlreadyRegistered: the test is missing.
AlreadyRegisteredNever(u) == FALSE

\* register_command's test: user_id in user_data.
AlreadyRegistered(u) == u \in DOMAIN user_data

\* Mutant of StoreAccount: the dict is replaced by one with the new key only.
StoreAccountAlone(user_id, account) == [x \in {user_id} |-> account]

\* user_data[user_id] = account, for a new key.
StoreAccount(user_id, account) ==
    [x \in DOMAIN user_data \cup {user_id} |->
       IF x = user_id THEN account ELSE user_data[x]]

register_command(p, u) ==
    /\ Dispatch(p)
    /\ IF AlreadyRegistered(u)
       THEN /\ Sending(p, u, "register", "AlreadyRegistered", <<>>)
            /\ UNCHANGED user_data
       ELSE /\ user_data' = StoreAccount(u, NewAccount)
            /\ Sending(p, u, "register", "Welcome", [shown_cash |-> starter_cash])

balance_command(p, u) ==
    /\ Dispatch(p)
    /\ IF ~check_registration(u)
       THEN NotRegistered(p, u, "balance", <<>>)
       ELSE LET data == get_user_data(u)
            IN /\ Sending(p, u, "balance", "Balance",
                          [shown_cash |-> data.cash, shown_bank |-> data.bank,
                           payout |-> data.cash + data.bank])
               /\ UNCHANGED user_data

\* Mutant of Collect: every timestamp is written.
CollectStampsAll(data, K, reward, current_time) ==
    [data EXCEPT !.cash = @ + reward, !.last_work = current_time,
                 !.last_daily = current_time, !.last_weekly = current_time,
                 !.last_monthly = current_time]

\* Mutant of Collect: every kind writes the timestamp of work.
CollectWrongField(data, K, reward, current_time) ==
    [data EXCEPT !.cash = @ + reward, !.last_work = current_time]

\* The account after a timed command of kind K collected reward at current_time.
Collect(data, K, reward, current_time) ==
    [[data EXCEPT !.cash = @ + reward] EXCEPT ![LastField(K)] = current_time]

\* The common body of daily, weekly, monthly and work.
TimedCommand(p, u, K, lo, hi) ==
    /\ Dispatch(p)
    /\ IF ~check_registration(u)
       THEN NotRegistered(p, u, K, <<>>)
       ELSE LET data == get_user_data(u)
                current_time == clock
                last_time == data[LastField(K)]
                locals == [current_time |-> current_time, last_time |-> last_time]
            IN IF OnCooldown(current_time, last_time, K)
               THEN LET remaining ==
                          int((last_time + Ticks(CooldownSeconds(K))) - current_time)
                    IN /\ Sending(p, u, K, "NotReady",
                                  [remaining |-> remaining,
                                   text |-> format_cooldown(remaining)] @@ locals)
                       /\ UNCHANGED user_data
               ELSE \E reward \in Draws(lo, hi) :
                       /\ user_data' =
                            [user_data EXCEPT
                               ![u] = Collect(data, K, reward, current_time)]
                       /\ Sending(p, u, K, "Collected",
                                  [payout |-> reward,
                                   shown_cash |-> data.cash + reward] @@ locals)

daily_command(p, u) == TimedCommand(p, u, "daily", DailyRewardMin, DailyRewardMax)

weekly_command(p, u) == TimedCommand(p, u, "weekly", WeeklyRewardMin, WeeklyRewardMax)

monthly_command(p, u) == TimedCommand(p, u, "monthly", MonthlyRewardMin, MonthlyRewardMax)

work_command(p, u) == TimedCommand(p, u, "work", WorkPayMin, WorkPayMax)

\* Mutant of CoinflipRejection: the funds are tested before the choice.
CoinflipRejectionFundsFirst(choice, amount, data) ==
    IF amount > data.cash THEN "OnlyHaveCash"
    ELSE IF choice \notin {heads, tails} THEN "InvalidChoice"
    ELSE IF amount <= 0 THEN "BetNotPositive"
    ELSE ""

\* Mutant of CoinflipRejection: the stake is compared with the cash the
\* account was created with, not with its current cash.
CoinflipRejectionStale(choice, amount, data) ==
    IF choice \notin {heads, tails} THEN "InvalidChoice"
    ELSE IF amount <= 0 THEN "BetNotPositive"
    ELSE IF amount > starter_cash THEN "OnlyHaveCash"
    ELSE ""

\* coinflip_command's three tests, in their order: the error message of the
\* first test that fails, "" if none does.
CoinflipRejection(choice, amount, data) ==
    IF choice \notin {heads, tails} THEN "InvalidChoice"
    ELSE IF amount <= 0 THEN "BetNotPositive"
    ELSE IF amount > data.cash THEN "OnlyHaveCash"
    ELSE ""

\* Mutant of CoinflipWon: the stake is not paid out.
CoinflipWonUnpaid(data, amount) == data

\* data['cash'] += amount
CoinflipWon(data, amount) == [data EXCEPT !.cash = @ + amount]

\* Mutant of CoinflipLost: the stake is taken from the bank.
CoinflipLostFromBank(data, amount) == [data EXCEPT !.bank = @ - amount]

\* data['cash'] -= amount
CoinflipLost(data, amount) == [data EXCEPT !.cash = @ - amount]

coinflip_command(p, u, choice0, amount) ==
    /\ Dispatch(p)
    /\ LET args == [choice |-> choice0, amount |-> amount] IN
       IF ~check_registration(u)
       THEN NotRegistered(p, u, "coinflip", args)
       ELSE LET data == get_user_data(u)
                choice == lower(choice0)
                rejection == CoinflipRejection(choice, amount, data)
            IN IF rejection = "OnlyHaveCash"
               THEN /\ Sending(p, u, "coinflip", rejection,
                               [shown_cash |-> data.cash] @@ args)
                    /\ UNCHANGED user_data
               ELSE IF rejection # ""
               THEN /\ Sending(p, u, "coinflip", rejection, args)
                    /\ UNCHANGED user_data
               ELSE \E coin_result \in {heads, tails} :
                      IF choice = coin_result
                      THEN /\ user_data' =
                                [user_data EXCEPT ![u] = CoinflipWon(data, amount)]
                           /\ Sending(p, u, "coinflip", "Won",
                                      [coin_result |-> coin_result,
                                       shown_cash |-> data.cash + amount] @@ args)
                      ELSE /\ user_data' =
                                [user_data EXCEPT ![u] = CoinflipLost(data, amount)]
                           /\ Sending(p, u, "coinflip", "Lost",
                                      [coin_result |-> coin_result,
                                       shown_cash |-> data.cash - amount] @@ args)

\* Mutant of DepositRejected: the funds test is missing.
DepositRejectedSignOnly(data, amount) == amount <= 0

\* deposit_command's test: amount <= 0 or amount > data['cash'].
DepositRejected(data, amount) == amount <= 0 \/ amount > data.cash

\* Mutant of WithdrawRejected: the whole bank balance cannot be withdrawn.
WithdrawRejectedAtBalance(data, amount) == amount <= 0 \/ amount >= data.bank

\* Mutant of WithdrawRejected: the funds test is missing.
WithdrawRejectedSignOnly(data, amount) == amount <= 0

\* Mutant of WithdrawRejected: the amount is compared with cash.
WithdrawRejectedByCash(data, amount) == amount <= 0 \/ amount > data.cash

\* withdraw_command's test: amount <= 0 or amount > data['bank'].
WithdrawRejected(data, amount) == amount <= 0 \/ amount > data.bank

\* Mutant of MoveToBank: the bank is not credited.
MoveToBankLost(data, amount) == [data EXCEPT !.cash = @ - amount]

\* data['cash'] -= amount; data['bank'] += amount
MoveToBank(data, amount) ==
    [data EXCEPT !.cash = @ - amount, !.bank = @ + amount]

\* Mutant of MoveToCash: the cash is not credited.
MoveToCashLost(data, amount) == [data EXCEPT !.bank = @ - amount]

\* data['cash'] += amount; data['bank'] -= amount
MoveToCash(data, amount) ==
    [data EXCEPT !.cash = @ + amount, !.bank = @ - amount]

deposit_command(p, u, amount) ==
    /\ Dispatch(p)
    /\ LET args == [amount |-> amount] IN
       IF ~check_registration(u)
       THEN NotRegistered(p, u, "deposit", args)
       ELSE LET data == get_user_data(u)
            IN IF DepositRejected(data, amount)
               THEN /\ Sending(p, u, "deposit", "InvalidOrInsufficientCash",
                               [shown_cash |-> data.cash] @@ args)
                    /\ UNCHANGED user_data
               ELSE /\ user_data' = [user_data EXCEPT ![u] = MoveToBank(data, amount)]
                    /\ Sending(p, u, "deposit", "Deposited",
                               [shown_cash |-> data.cash - amount,
                                shown_bank |-> data.bank + amount] @@ args)

withdraw_command(p, u, amount) ==
    /\ Dispatch(p)
    /\ LET args == [amount |-> amount] IN
       IF ~check_registration(u)
       THEN NotRegistered(p, u, "withdraw", args)
       ELSE LET data == get_user_data(u)
            IN IF WithdrawRejected(data, amount)
               THEN /\ Sending(p, u, "withdraw", "InvalidOrInsufficientBank",
                               [shown_bank |-> data.bank] @@ args)
                    /\ UNCHANGED user_data
               ELSE /\ user_data' = [user_data EXCEPT ![u] = MoveToCash(data, amount)]
                    /\ Sending(p, u, "withdraw", "Withdrawn",
                               [shown_cash |-> data.cash + amount,
                                shown_bank |-> data.bank - amount] @@ args)

\* transfer and the other placeholder commands: not_implemented.  The handler
\* reads neither of its parameters, the receiving member and the amount.
transfer_command(p, u, member, amount) ==
    /\ Dispatch(p)
    /\ Sending(p, u, "transfer", "NotImplemented",
               [member |-> member, amount |-> amount])
    /\ UNCHANGED user_data

\* A call format_cooldown(seconds), as the timed handlers make it for their
\* message; the task keeps the argument and the result.
call_format_cooldown(p, seconds) ==
    /\ Dispatch(p)
    /\ Sending(p, "", "format_cooldown", "",
               [remaining |-> seconds, text |-> format_cooldown(seconds)])
    /\ UNCHANGED user_data

\* The await on send_message completes and the handler returns.
Sent(p) ==
    /\ tasks[p].pc = "sending"
    /\ tasks' = [tasks EXCEPT ![p] = Idle]
    /\ UNCHANGED <<user_data, clock, issued, readings, budget>>

\* The wall clock moves forward.
Advance ==
    /\ \E t \in readings : t > clock /\ clock' = t
    /\ UNCHANGED <<user_data, tasks, issued, readings, budget>>

\* The wall clock is set back (time.time() is not monotonic).
StepBack ==
    /\ \E t \in readings : t < clock /\ clock' = t
    /\ UNCHANGED <<user_data, tasks, issued, readings, budget>>

\* The state after the module is loaded: no account, no handler in flight; the
\* wall clock takes the readings of one of the sets of F, and n invocations
\* are dispatched.
InitAt(F, n) ==
    /\ user_data = <<>>
    /\ readings \in F
    /\ clock \in readings
    /\ tasks = [p \in Tasks |-> Idle]
    /\ issued = 0
    /\ budget = n

\* The transfers of the ledger specification: one amount, to the other user.
LedgerTransferAmounts == {100}

OtherUser(u) == CHOOSE v \in Users : v # u

\* The ledger: every command of every user, with every amount and choice.
Init == InitAt({LedgerReadings}, MaxIssued)

Next ==
    \/ \E p \in Tasks, u \in Users : register_command(p, u)
    \/ \E p \in Tasks, u \in Users : balance_command(p, u)
    \/ \E p \in Tasks, u \in Users : daily_command(p, u)
    \/ \E p \in Tasks, u \in Users : weekly_command(p, u)
    \/ \E p \in Tasks, u \in Users : monthly_command(p, u)
    \/ \E p \in Tasks, u \in Users : work_command(p, u)
    \/ \E p \in Tasks, u \in Users, c \in Choices, a \in Amounts :
          coinflip_command(p, u, c, a)
    \/ \E p \in Tasks, u \in Users, a \in Amounts : deposit_command(p, u, a)
    \/ \E p \in Tasks, u \in Users, a \in Amounts : withdraw_command(p, u, a)
    \/ \E p \in Tasks, u \in Users, a \in LedgerTransferAmounts :
          transfer_command(p, u, OtherUser(u), a)
    \/ \E p \in Tasks : Sent(p)
    \/ Advance
    \/ StepBack

Spec == Init /\ [][Next]_vars

\* The cooldowns: registration and the four timed commands of one user, in
\* two concurrent tasks, with the wall clock around the end of a cooldown of
\* one of the kinds.
InitCooldown == InitAt({CooldownReadings(K) : K \in Kinds}, MaxIssued)

NextCooldown ==
    \/ \E p \in Tasks, u \in CooldownUsers : register_command(p, u)
    \/ \E p \in Tasks, u \in CooldownUsers : daily_command(p, u)
    \/ \E p \in Tasks, u \in CooldownUsers : weekly_command(p, u)
    \/ \E p \in Tasks, u \in CooldownUsers : monthly_command(p, u)
    \/ \E p \in Tasks, u \in CooldownUsers : work_command(p, u)
    \/ \E p \in Tasks : Sent(p)
    \/ Advance
    \/ StepBack

SpecCooldown == InitCooldown /\ [][NextCooldown]_vars

\* The first use: registration and the four timed commands of one user, with
\* the wall clock around the first reading at which one of the kinds is ready
\* on a new account.
InitFirstUse == InitAt({FirstUseReadings(K) : K \in Kinds}, MaxIssued)

SpecFirstUse == InitFirstUse /\ [][NextCooldown]_vars

\* The advancing clock: registration, the four timed commands and a coinflip
\* of one user, with the wall clock at the starts and the end of a cooldown of
\* daily and of work, never set back and advancing as long as it has a later
\* reading to take.
InitAdvancing == InitAt({AdvancingReadings}, MaxIssued)

NextAdvancing ==
    \/ \E p \in Tasks, u \in CooldownUsers : register_command(p, u)
    \/ \E p \in Tasks, u \in CooldownUsers : daily_command(p, u)
    \/ \E p \in Tasks, u \in CooldownUsers : weekly_command(p, u)
    \/ \E p \in Tasks, u \in CooldownUsers : monthly_command(p, u)
    \/ \E p \in Tasks, u \in CooldownUsers : work_command(p, u)
    \/ \E p \in Tasks, u \in CooldownUsers : coinflip_command(p, u, heads, 100)
    \/ \E p \in Tasks : Sent(p)
    \/ Advance

SpecAdvancing == InitAdvancing /\ [][NextAdvancing]_vars /\ WF_vars(Advance)

\* The transfers: registration and transfer between every two users, with
\* every amount.
InitTransfer == InitAt({LedgerReadings}, MaxIssued)

NextTransfer ==
    \/ \E p \in Tasks, u \in Users : register_command(p, u)
    \/ \E p \in Tasks, u \in Users : balance_command(p, u)
    \/ \E p \in Tasks, u \in Users, member \in Users, a \in Amounts :
          transfer_command(p, u, member, a)
    \/ \E p \in Tasks : Sent(p)

SpecTransfer == InitTransfer /\ [][NextTransfer]_vars

\* The formatting of cooldowns: format_cooldown applied to its arguments.
InitFormat == InitAt({{T0}}, MaxIssued)

NextFormat ==
    \/ \E p \in Tasks, seconds \in FormatSeconds : call_format_cooldown(p, seconds)
    \/ \E p \in Tasks : Sent(p)

SpecFormat == InitFormat /\ [][NextFormat]_vars

\* The scenario: one user registers, works, deposits 100, withdraws 50 and
\* bets 200 on heads, in any order and interleaving, at a reading at which a
\* new account is ready to work.
ScenarioUser == "u1"

InitScenario == InitAt({{T0}}, ScenarioIssued)

NextScenario ==
    \/ \E p \in Tasks : register_command(p, ScenarioUser)
    \/ \E p \in Tasks : work_command(p, ScenarioUser)
    \/ \E p \in Tasks : deposit_command(p, ScenarioUser, 100)
    \/ \E p \in Tasks : withdraw_command(p, ScenarioUser, 50)
    \/ \E p \in Tasks : coinflip_command(p, ScenarioUser, heads, 200)
    \/ \E p \in Tasks : Sent(p)

SpecScenario == InitScenario /\ [][NextScenario]_vars

\* The choices: one user registers and bets 100 with every spelling of the
\* choice.
InitChoice == InitAt({{T0}}, MaxIssued)

NextChoice ==
    \/ \E p \in Tasks : register_command(p, ScenarioUser)
    \/ \E p \in Tasks, c \in ChoiceSpellings :
          coinflip_command(p, ScenarioUser, c, 100)
    \/ \E p \in Tasks : Sent(p)

SpecChoice == InitChoice /\ [][NextChoice]_vars

\* The round trips: one user registers and deposits and withdraws 100 or 500,
\* in any order and interleaving.
RoundTripAmounts == {100, 500}

InitRoundTrip == InitAt({{T0}}, RoundTripIssued)

NextRoundTrip ==
    \/ \E p \in Tasks : register_command(p, ScenarioUser)
    \/ \E p \in Tasks, a \in RoundTripAmounts : deposit_command(p, ScenarioUser, a)
    \/ \E p \in Tasks, a \in RoundTripAmounts : withdraw_command(p, ScenarioUser, a)
    \/ \E p \in Tasks : Sent(p)

SpecRoundTrip == InitRoundTrip /\ [][NextRoundTrip]_vars

\* =========================================================== the claims
\* The handler of task p ran in this step, from its dispatch to its send_message.
Ran(p) == tasks[p].pc = "idle" /\ tasks'[p].pc = "sending"

\* The handler of task p ran command cmd for user u in this step.
RanFor(p, u, cmd) == Ran(p) /\ tasks'[p].user = u /\ tasks'[p].cmd = cmd

Registered(u) == u \in DOMAIN user_data

Timestamps(data) ==
    <<data.last_work, data.last_daily, data.last_weekly, data.last_monthly>>

\* C1: in every reachable state every account has cash >= 0 and bank >= 0,
\* whatever commands ran, with whatever amounts, in whatever interleaving.
C1_NonNegativeBalances ==
    \A u \in DOMAIN user_data : user_data[u].cash >= 0 /\ user_data[u].bank >= 0

\* C1 witness: an account emptied to cash = 0 on which a positive deposit or
\* stake has just been refused.
C1_Witness ==
    \E p \in Tasks :
        /\ tasks[p].msg \in {"OnlyHaveCash", "InvalidOrInsufficientCash"}
        /\ tasks[p].amount > 0
        /\ user_data[tasks[p].user].cash = 0
        /\ user_data[tasks[p].user].bank > 0

\* C2: while a timed command of a user has collected its reward and is still
\* sending its message, a second invocation of the same command for the same
\* user whose clock reading is less than one cooldown after the first's is
\* rejected as not ready and credits nothing and writes no timestamp: one
\* reward and one cooldown write in all.
C2_OneRewardForTwoInvocations ==
    [][\A p, q \in Tasks :
          ( /\ p # q
            /\ tasks[p].pc = "sending"
            /\ tasks[p].msg = "Collected"
            /\ RanFor(q, tasks[p].user, tasks[p].cmd)
            /\ clock < tasks[p].current_time + Ticks(CooldownSeconds(tasks[p].cmd)) )
          => (tasks'[q].msg = "NotReady" /\ user_data' = user_data)]_vars

\* C2 witness: both handlers of the same timed command of one user are in
\* flight, the first collected and the second, run at the same reading, was
\* rejected.
C2_Witness ==
    \E p, q \in Tasks :
        /\ p # q
        /\ tasks[p].msg = "Collected" /\ tasks[q].msg = "NotReady"
        /\ tasks[p].cmd = tasks[q].cmd /\ tasks[p].user = tasks[q].user
        /\ tasks[q].current_time = tasks[p].current_time
        /\ tasks[q].last_time = tasks[p].current_time

\* C3: register by an identity without an account creates the account with
\* cash 500, bank 0 and the four timestamps 0, and changes no other account.
C3_RegisterCreatesStarterAccount ==
    [][\A p \in Tasks, u \in Users :
          (RanFor(p, u, "register") /\ ~Registered(u))
          => ( /\ DOMAIN user_data' = DOMAIN user_data \cup {u}
               /\ user_data'[u].cash = 500
               /\ user_data'[u].bank = 0
               /\ Timestamps(user_data'[u]) = <<0, 0, 0, 0>>
               /\ \A v \in DOMAIN user_data : user_data'[v] = user_data[v] )]_vars

\* C3 witness: a new account was just created at a reading after the epoch
\* while another account, already changed by a deposit, exists.
C3_Witness ==
    \E p \in Tasks, v \in Users :
        /\ tasks[p].msg = "Welcome"
        /\ v # tasks[p].user
        /\ Registered(v) /\ user_data[v].bank > 0
        /\ clock > 0
        /\ user_data[tasks[p].user].cash = 500

\* C4: register by an identity that has an account fails as already
\* registered and leaves every account as it was, also while the first
\* register of that identity is still in flight; and a registered identity
\* stays registered.
C4_NoReRegistration ==
    [][/\ \A p \in Tasks, u \in Users :
             (RanFor(p, u, "register") /\ Registered(u))
             => (tasks'[p].msg = "AlreadyRegistered" /\ user_data' = user_data)
       /\ DOMAIN user_data \subseteq DOMAIN user_data']_vars

\* C4 witness: the first register of a user is still sending its welcome, the
\* account has since been changed by a deposit, and a second register of the
\* same user was refused.
C4_Witness ==
    \E p, q \in Tasks :
        /\ tasks[p].msg = "Welcome" /\ tasks[q].msg = "AlreadyRegistered"
        /\ tasks[p].user = tasks[q].user
        /\ user_data[tasks[p].user].bank > 0

ImplementedCommands ==
    {"register", "balance", "work", "daily", "weekly", "monthly",
     "coinflip", "deposit", "withdraw"}

StatedInterval(K) == CASE K = "work" -> 60
                       [] K = "daily" -> 86400
                       [] K = "weekly" -> 604800
                       [] K = "monthly" -> 2592000

\* A handler of a timed command is in flight for a registered user.
TimedInFlight(p) ==
    /\ tasks[p].pc = "sending"
    /\ tasks[p].cmd \in Kinds
    /\ tasks[p].msg # "NotRegistered"

\* C6: a timed command of kind K with interval I, read at now on an account
\* whose timestamp of K is t0, collects iff now >= t0 + I: at now = t0 + I - 1 s
\* it is refused and reports exactly 1 second, at now = t0 + I it collects.
C6_CooldownBoundary ==
    \A p \in Tasks :
        TimedInFlight(p) =>
            LET I == StatedInterval(tasks[p].cmd) * TicksPerSecond
                now == tasks[p].current_time
                t0 == tasks[p].last_time
            IN /\ tasks[p].msg \in {"Collected", "NotReady"}
               /\ (tasks[p].msg = "Collected") <=> (now >= t0 + I)
               /\ now = t0 + I - TicksPerSecond
                     => /\ tasks[p].msg = "NotReady"
                        /\ tasks[p].remaining = 1
                        /\ tasks[p].text = <<<<1, "s">>>>
               /\ now = t0 + I => tasks[p].msg = "Collected"

\* C6 witness: an account that collected at t0 > 0 was refused one second
\* before the end of the cooldown, with 1 second reported.
C6_Witness ==
    \E p \in Tasks :
        /\ TimedInFlight(p)
        /\ tasks[p].last_time > 0
        /\ tasks[p].current_time =
              tasks[p].last_time + StatedInterval(tasks[p].cmd) * TicksPerSecond
                 - TicksPerSecond
        /\ tasks[p].msg = "NotReady"
        /\ tasks[p].remaining = 1

\* The least whole number of seconds that is at least x ticks.
CeilSeconds(x) == (x + TicksPerSecond - 1) \div TicksPerSecond

\* C7: a refused timed command reports ceil(lastUsed + I - now) whole seconds,
\* also at sub-second readings, hence at least 1 second.
C7_RemainingIsCeiling ==
    \A p \in Tasks :
        (TimedInFlight(p) /\ tasks[p].msg = "NotReady")
        => /\ tasks[p].remaining =
                 CeilSeconds(tasks[p].last_time
                             + StatedInterval(tasks[p].cmd) * TicksPerSecond
                             - tasks[p].current_time)
           /\ tasks[p].remaining >= 1

\* C8: the timestamp of kind K of an account changes only in the step in
\* which a handler of K collects for that account; it is then set to the
\* clock reading of that step and is larger than before.  No other step, and
\* no collection of another kind, changes it, also when the clock is set back.
C8_TimestampWrittenOnlyByOwnSuccess ==
    [][\A u \in DOMAIN user_data, K \in Kinds :
          /\ user_data'[u][LastField(K)] >= user_data[u][LastField(K)]
          /\ user_data'[u][LastField(K)] # user_data[u][LastField(K)]
                => /\ \E p \in Tasks : RanFor(p, u, K) /\ tasks'[p].msg = "Collected"
                   /\ user_data'[u][LastField(K)] = clock]_vars

\* C8 witness: after work collected at a reading t0 > 0 (and another kind
\* collected too), the clock was set back and work was tried again: the
\* timestamp of work is still t0.
C8_Witness ==
    \E p \in Tasks :
        /\ tasks[p].cmd = "work" /\ tasks[p].msg = "NotReady"
        /\ tasks[p].current_time < tasks[p].last_time
        /\ clock < tasks[p].last_time
        /\ user_data[tasks[p].user].last_work = tasks[p].last_time

\* The reward ranges the specification states.
StatedRange(K) == CASE K = "work" -> 100..600
                    [] K = "daily" -> 5000..10000
                    [] K = "weekly" -> 30000..50000
                    [] K = "monthly" -> 150000..300000

\* C9: a timed command that collects adds to cash one amount of its kind's
\* inclusive range, and leaves bank and the timestamps of the other kinds
\* unchanged.
C9_RewardWithinRange ==
    [][\A p \in Tasks :
          (Ran(p) /\ tasks'[p].msg = "Collected")
          => LET u == tasks'[p].user
                 K == tasks'[p].cmd
             IN /\ user_data'[u].cash - user_data[u].cash \in StatedRange(K)
                /\ user_data'[u].cash - user_data[u].cash = tasks'[p].payout
                /\ user_data'[u].bank = user_data[u].bank
                /\ \A J \in Kinds \ {K} :
                      user_data'[u][LastField(J)] = user_data[u][LastField(J)]
                /\ \A v \in DOMAIN user_data \ {u} : user_data'[v] = user_data[v]]_vars

\* C9 witness: an end of a range was drawn at each side: work paid its least
\* amount 100 and daily its largest amount 10000 to the same account, which
\* then holds 500 + 100 + 10000.
C9_Witness ==
    \E p, q \in Tasks :
        /\ tasks[p].cmd = "work" /\ tasks[p].msg = "Collected" /\ tasks[p].payout = 100
        /\ tasks[q].cmd = "daily" /\ tasks[q].msg = "Collected"
        /\ tasks[q].payout = 10000
        /\ tasks[p].user = tasks[q].user
        /\ user_data[tasks[p].user].cash = 10600

\* C10: deposit of an amount with 0 < amount <= cash (amount = cash included)
\* on a registered account moves the amount from cash to bank in the one step
\* of the handler, so cash + bank is unchanged, and changes no timestamp.
C10_DepositMovesCashToBank ==
    [][\A p \in Tasks, u \in DOMAIN user_data :
          ( /\ RanFor(p, u, "deposit")
            /\ 0 < tasks'[p].amount
            /\ tasks'[p].amount <= user_data[u].cash )
          => /\ tasks'[p].msg = "Deposited"
             /\ user_data'[u].cash = user_data[u].cash - tasks'[p].amount
             /\ user_data'[u].bank = user_data[u].bank + tasks'[p].amount
             /\ user_data'[u].cash + user_data'[u].bank
                   = user_data[u].cash + user_data[u].bank
             /\ Timestamps(user_data'[u]) = Timestamps(user_data[u])]_vars

\* C10 witness: the whole cash of a new account was deposited (amount = cash):
\* cash is 0 and bank is the amount.
C10_Witness ==
    \E p \in Tasks :
        /\ tasks[p].cmd = "deposit" /\ tasks[p].msg = "Deposited"
        /\ tasks[p].amount = 500
        /\ tasks[p].shown_cash = 0
        /\ user_data[tasks[p].user].cash = 0
        /\ user_data[tasks[p].user].bank = 500

\* C11: withdraw of an amount with 0 < amount <= bank (amount = bank included)
\* on a registered account moves the amount from bank to cash, so cash + bank
\* is unchanged; with amount > bank it is refused and changes nothing, also
\* when cash would cover the amount.
C11_WithdrawMovesBankToCash ==
    [][\A p \in Tasks, u \in DOMAIN user_data :
          RanFor(p, u, "withdraw")
          => /\ (0 < tasks'[p].amount /\ tasks'[p].amount <= user_data[u].bank)
                => /\ tasks'[p].msg = "Withdrawn"
                   /\ user_data'[u].cash = user_data[u].cash + tasks'[p].amount
                   /\ user_data'[u].bank = user_data[u].bank - tasks'[p].amount
                   /\ user_data'[u].cash + user_data'[u].bank
                         = user_data[u].cash + user_data[u].bank
             /\ tasks'[p].amount > user_data[u].bank
                => /\ tasks'[p].msg = "InvalidOrInsufficientBank"
                   /\ user_data' = user_data]_vars

\* C11 witness: the whole bank balance was withdrawn (amount = bank) from an
\* account whose cash was 0, less than the amount: bank is 0 and cash is the
\* amount.
C11_Witness ==
    \E p \in Tasks :
        /\ tasks[p].cmd = "withdraw" /\ tasks[p].msg = "Withdrawn"
        /\ tasks[p].amount = 500
        /\ tasks[p].shown_bank = 0
        /\ user_data[tasks[p].user].cash = 500
        /\ user_data[tasks[p].user].bank = 0

\* The error kinds a message reports to the caller.
ErrorKinds(msg) ==
    CASE msg = "NotRegistered" -> {"NotRegistered"}
      [] msg = "AlreadyRegistered" -> {"AlreadyRegistered"}
      [] msg = "NotReady" -> {"NotReady"}
      [] msg = "InvalidChoice" -> {"InvalidChoice"}
      [] msg = "BetNotPositive" -> {"InvalidAmount"}
      [] msg = "OnlyHaveCash" -> {"InsufficientFunds"}
      [] msg \in {"InvalidOrInsufficientCash", "InvalidOrInsufficientBank"}
            -> {"InvalidAmount", "InsufficientFunds"}
      [] OTHER -> {}

\* A handler of an amount-taking command is in flight and has reached its
\* test of the amount.
AmountTested(p) ==
    /\ tasks[p].pc = "sending"
    /\ tasks[p].cmd \in {"deposit", "withdraw", "coinflip"}
    /\ tasks[p].msg \notin {"NotRegistered", "InvalidChoice"}

\* C12: deposit, withdraw and coinflip answer a non-positive amount with the
\* error kind InvalidAmount and no other, and report InsufficientFunds only
\* for a positive amount.
C12_InvalidAmountDistinct ==
    \A p \in Tasks :
        AmountTested(p) =>
            /\ tasks[p].amount <= 0 => ErrorKinds(tasks[p].msg) = {"InvalidAmount"}
            /\ "InsufficientFunds" \in ErrorKinds(tasks[p].msg) => tasks[p].amount > 0

\* C13: a coinflip with a valid choice and 0 < stake <= cash draws an outcome
\* and changes cash by +stake when the outcome is the chosen one (won) and by
\* -stake otherwise (lost); bank and the four timestamps are unchanged.
C13_CoinflipPaysOrTakesStake ==
    [][\A p \in Tasks, u \in DOMAIN user_data :
          ( /\ RanFor(p, u, "coinflip")
            /\ lower(tasks'[p].choice) \in {heads, tails}
            /\ 0 < tasks'[p].amount
            /\ tasks'[p].amount <= user_data[u].cash )
          => /\ tasks'[p].coin_result \in {heads, tails}
             /\ IF tasks'[p].coin_result = lower(tasks'[p].choice)
                THEN /\ tasks'[p].msg = "Won"
                     /\ user_data'[u].cash = user_data[u].cash + tasks'[p].amount
                ELSE /\ tasks'[p].msg = "Lost"
                     /\ user_data'[u].cash = user_data[u].cash - tasks'[p].amount
             /\ user_data'[u].bank = user_data[u].bank
             /\ Timestamps(user_data'[u]) = Timestamps(user_data[u])]_vars

\* C13 witness: two coinflips of one user with the same choice and stake are
\* in flight, one won and one lost, and cash is back at 500.
C13_Witness ==
    \E p, q \in Tasks :
        /\ tasks[p].cmd = "coinflip" /\ tasks[q].cmd = "coinflip"
        /\ tasks[p].user = tasks[q].user
        /\ tasks[p].choice = tasks[q].choice
        /\ tasks[p].amount = 100 /\ tasks[q].amount = 100
        /\ tasks[p].msg = "Won" /\ tasks[q].msg = "Lost"
        /\ user_data[tasks[p].user].cash = 500

\* A coinflip handler is in flight for a registered user.
CoinflipInFlight(p) ==
    /\ tasks[p].pc = "sending"
    /\ tasks[p].cmd = "coinflip"
    /\ tasks[p].msg # "NotRegistered"

\* C14: coinflip tests the choice, then the sign of the stake, then the funds:
\* a choice that is neither heads nor tails is answered as an invalid choice
\* whatever the stake, a valid choice with a stake <= 0 as a non-positive bet
\* whatever the cash, and insufficient funds only for a valid choice with a
\* positive stake above the cash.
C14_CoinflipValidationOrder ==
    \A p \in Tasks :
        CoinflipInFlight(p) =>
            LET valid == lower(tasks[p].choice) \in {heads, tails}
            IN /\ ~valid => tasks[p].msg = "InvalidChoice"
               /\ (valid /\ tasks[p].amount <= 0) => tasks[p].msg = "BetNotPositive"
               /\ tasks[p].msg = "OnlyHaveCash"
                     => /\ valid
                        /\ tasks[p].amount > 0
                        /\ tasks[p].amount > tasks[p].shown_cash

\* C14 witness: a coinflip with an invalid choice and a stake above the cash of
\* the account was answered as an invalid choice.
C14_Witness ==
    \E p \in Tasks :
        /\ CoinflipInFlight(p)
        /\ tasks[p].msg = "InvalidChoice"
        /\ tasks[p].amount > user_data[tasks[p].user].cash

\* C15: the bank balance of an account changes only in the step of a deposit
\* or withdraw handler of that account that succeeds.
C15_BankChangedOnlyByDepositWithdraw ==
    [][\A u \in DOMAIN user_data :
          user_data'[u].bank # user_data[u].bank
          => \E p \in Tasks :
                \/ RanFor(p, u, "deposit") /\ tasks'[p].msg = "Deposited"
                \/ RanFor(p, u, "withdraw") /\ tasks'[p].msg = "Withdrawn"]_vars

\* C15 witness: an account with money in the bank lost a coinflip; the bank
\* holds what was deposited.
C15_Witness ==
    \E p \in Tasks :
        /\ tasks[p].cmd = "coinflip" /\ tasks[p].msg = "Lost"
        /\ tasks[p].amount = 100
        /\ user_data[tasks[p].user].bank = 100
        /\ user_data[tasks[p].user].cash = 300

\* C16: a transfer of n from a registered account A to another registered
\* account B with 0 < n <= A.cash succeeds and moves n from A.cash to B.cash
\* in one step, so A.cash + B.cash is unchanged; a transfer with n <= 0 or
\* n > A.cash changes neither balance.
C16_TransferConservesCash ==
    [][\A p \in Tasks, A \in DOMAIN user_data, B \in DOMAIN user_data :
          ( /\ RanFor(p, A, "transfer")
            /\ tasks'[p].member = B
            /\ A # B )
          => LET n == tasks'[p].amount
             IN IF 0 < n /\ n <= user_data[A].cash
                THEN /\ user_data'[A].cash = user_data[A].cash - n
                     /\ user_data'[B].cash = user_data[B].cash + n
                     /\ user_data'[A].cash + user_data'[B].cash
                           = user_data[A].cash + user_data[B].cash
                ELSE /\ user_data'[A].cash = user_data[A].cash
                     /\ user_data'[B].cash = user_data[B].cash]_vars

\* C17: while a coinflip that lost or a deposit of an account is still sending
\* its message, a second coinflip or deposit of the same account whose amount
\* exceeds the cash the first has left is refused and changes nothing, also
\* when its amount fitted the cash before the first ran; and no step makes
\* cash negative.
C17_NoOverdraftByConcurrentDebits ==
    [][/\ \A p, q \in Tasks :
             ( /\ p # q
               /\ tasks[p].pc = "sending"
               /\ tasks[p].msg \in {"Lost", "Deposited"}
               /\ Ran(q)
               /\ tasks'[q].user = tasks[p].user
               /\ tasks'[q].cmd \in {"coinflip", "deposit"}
               /\ tasks'[q].amount > user_data[tasks[p].user].cash )
             => /\ tasks'[q].msg \in {"OnlyHaveCash", "InvalidOrInsufficientCash",
                                      "InvalidChoice"}
                /\ user_data' = user_data
       /\ \A u \in DOMAIN user_data' : user_data'[u].cash >= 0]_vars

\* C17 witness: a coinflip that staked the whole cash of 500 and lost is still
\* in flight when a coinflip of the same user with a valid choice and a stake
\* of 100, which fitted the cash of 500, is refused against the cash of 0.
C17_Witness ==
    \E p, q \in Tasks :
        /\ p # q
        /\ tasks[p].pc = "sending" /\ tasks[q].pc = "sending"
        /\ tasks[p].user = tasks[q].user
        /\ tasks[p].cmd = "coinflip" /\ tasks[p].msg = "Lost"
        /\ tasks[p].amount = 500 /\ tasks[p].shown_cash = 0
        /\ tasks[q].cmd = "coinflip" /\ tasks[q].msg = "OnlyHaveCash"
        /\ tasks[q].amount = 100 /\ tasks[q].shown_cash = 0
        /\ user_data[tasks[p].user].cash = 0

\* C18: the scenario, step by step.  register of a new user U gives cash 500
\* and bank 0; the first work of U then gives a cash of 600 to 1100; from
\* cash 600, deposit of 100 gives cash 500 and bank 100; withdraw of 50 then
\* gives cash 550 and bank 50; coinflip on heads with stake 200 and the coin
\* drawn as tails then is lost and gives cash 350, with bank still 50.
C18_Scenario ==
    [][\A p \in Tasks :
          RanFor(p, ScenarioUser, tasks'[p].cmd)
          => LET U == ScenarioUser
                 cmd == tasks'[p].cmd
                 cash == user_data[U].cash
                 bank == user_data[U].bank
                 cash1 == user_data'[U].cash
                 bank1 == user_data'[U].bank
             IN IF ~Registered(U)
                THEN cmd = "register" => (cash1 = 500 /\ bank1 = 0)
                ELSE /\ ( /\ cmd = "work"
                          /\ cash = 500 /\ bank = 0
                          /\ user_data[U].last_work = 0 )
                        => (cash1 \in 600..1100 /\ bank1 = 0)
                     /\ ( /\ cmd = "deposit" /\ tasks'[p].amount = 100
                          /\ cash = 600 /\ bank = 0 )
                        => (cash1 = 500 /\ bank1 = 100)
                     /\ ( /\ cmd = "withdraw" /\ tasks'[p].amount = 50
                          /\ cash = 500 /\ bank = 100 )
                        => (cash1 = 550 /\ bank1 = 50)
                     /\ ( /\ cmd = "coinflip" /\ tasks'[p].choice = heads
                          /\ tasks'[p].amount = 200
                          /\ cash = 550 /\ bank = 50
                          /\ tasks'[p].coin_result = tails )
                        => ( /\ tasks'[p].msg = "Lost"
                             /\ cash1 = 350 /\ bank1 = 50 )]_vars

\* C18 witness: the end of the scenario.  The withdraw that showed cash 550
\* and bank 50 is still in flight when the coinflip on heads with stake 200,
\* drawn as tails, is lost and shows cash 350; the account holds cash 350 and
\* bank 50, its first work paid 100, and all five invocations were dispatched.
C18_Witness ==
    \E p, q \in Tasks :
        /\ tasks[q].cmd = "withdraw" /\ tasks[q].msg = "Withdrawn"
        /\ tasks[q].shown_cash = 550 /\ tasks[q].shown_bank = 50
        /\ tasks[p].cmd = "coinflip" /\ tasks[p].msg = "Lost"
        /\ tasks[p].coin_result = tails /\ tasks[p].shown_cash = 350
        /\ user_data[ScenarioUser].cash = 350
        /\ user_data[ScenarioUser].bank = 50
        /\ user_data[ScenarioUser].last_work = clock
        /\ issued = 5

\* The place of a unit in the order hours, minutes, seconds.
UnitRank(unit) == CASE unit = "h" -> 1 [] unit = "m" -> 2 [] unit = "s" -> 3

\* The value the parts show for a unit, 0 when the unit is not shown.
Shown(parts, unit) ==
    IF \E i \in DOMAIN parts : parts[i][2] = unit
    THEN parts[CHOOSE i \in DOMAIN parts : parts[i][2] = unit][1]
    ELSE 0

\* C19: format_cooldown(s) for s >= 0 shows units h, m, sec with
\* s = 3600*h + 60*m + sec, m < 60 and sec < 60, in the order hours, minutes,
\* seconds; hours and minutes are not shown when they are zero, at least one
\* unit is shown (s = 0 gives the single unit 0s), and the seconds are shown
\* whenever they are not zero.
C19_FormatCooldownDecomposes ==
    \A p \in Tasks :
        (tasks[p].pc = "sending" /\ tasks[p].cmd = "format_cooldown") =>
            LET s == tasks[p].remaining
                parts == tasks[p].text
                h == Shown(parts, "h")
                m == Shown(parts, "m")
                sec == Shown(parts, "s")
            IN /\ \A i \in DOMAIN parts : parts[i][2] \in {"h", "m", "s"}
               /\ \A i, j \in DOMAIN parts :
                     i < j => UnitRank(parts[i][2]) < UnitRank(parts[j][2])
               /\ s = 3600 * h + 60 * m + sec
               /\ h >= 0 /\ 0 <= m /\ m < 60 /\ 0 <= sec /\ sec < 60
               /\ \A i \in DOMAIN parts :
                     parts[i][2] \in {"h", "m"} => parts[i][1] > 0
               /\ Len(parts) >= 1
               /\ s = 0 => parts = <<<<0, "s">>>>
               /\ s % 60 # 0 => \E i \in DOMAIN parts : parts[i] = <<s % 60, "s">>

\* C19 witness: format_cooldown(0) gave the single unit 0s while
\* format_cooldown(90061) gave 25h 1m 1s.
C19_Witness ==
    \E p, q \in Tasks :
        /\ tasks[p].cmd = "format_cooldown" /\ tasks[p].remaining = 0
        /\ tasks[p].text = <<<<0, "s">>>>
        /\ tasks[q].cmd = "format_cooldown" /\ tasks[q].remaining = 90061
        /\ tasks[q].text = <<<<25, "h">>, <<1, "m">>, <<1, "s">>>>

\* C20: a timed command of kind K invoked while its cooldown is active
\* (now < lastUsed + I) is refused and leaves every account as it was: cash,
\* bank and the four timestamps, so the refused attempt does not restart or
\* extend the cooldown.
C20_BlockedAttemptChangesNothing ==
    [][\A p \in Tasks, u \in DOMAIN user_data :
          ( /\ Ran(p)
            /\ tasks'[p].user = u
            /\ tasks'[p].cmd \in Kinds
            /\ clock < user_data[u][LastField(tasks'[p].cmd)]
                          + StatedInterval(tasks'[p].cmd) * TicksPerSecond )
          => /\ tasks'[p].msg = "NotReady"
             /\ user_data' = user_data]_vars

\* C20 witness: a timed command that collected at t0 > 0 was invoked again at
\* a later reading inside its cooldown and refused; the timestamp is still t0
\* and the account has its starter cash and the one reward.
C20_Witness ==
    \E p \in Tasks :
        /\ TimedInFlight(p)
        /\ tasks[p].msg = "NotReady"
        /\ tasks[p].last_time > 0
        /\ tasks[p].current_time > tasks[p].last_time
        /\ user_data[tasks[p].user][LastField(tasks[p].cmd)] = tasks[p].last_time
        /\ user_data[tasks[p].user].cash - starter_cash \in StatedRange(tasks[p].cmd)

\* The handler of task p ran for the registered user u in this step with
\* parameters that fail the validation of its command: an amount <= 0, an
\* amount above the cash (deposit, coinflip) or the bank (withdraw), or a
\* coinflip choice that is neither heads nor tails.
FailsValidation(p, u) ==
    LET cmd == tasks'[p].cmd
        amount == tasks'[p].amount
    IN /\ Ran(p) /\ tasks'[p].user = u
       /\ \/ cmd \in {"deposit", "withdraw", "coinflip"} /\ amount <= 0
          \/ cmd \in {"deposit", "coinflip"} /\ amount > user_data[u].cash
          \/ cmd = "withdraw" /\ amount > user_data[u].bank
          \/ cmd = "coinflip" /\ tasks'[p].choice \notin {heads, <<"T", "A", "I", "L", "S">>}

\* C21: a deposit, withdraw or coinflip of a registered user that fails its
\* validation is answered with an error and leaves every account as it was.
C21_FailedValidationChangesNothing ==
    [][\A p \in Tasks, u \in DOMAIN user_data :
          FailsValidation(p, u)
          => /\ tasks'[p].msg \in {"InvalidChoice", "BetNotPositive", "OnlyHaveCash",
                                   "InvalidOrInsufficientCash",
                                   "InvalidOrInsufficientBank"}
             /\ user_data' = user_data]_vars

\* C21 witness: on an account with cash 400 and bank 100, a withdraw of 500,
\* which the cash and the bank together would cover, was refused; the account
\* still has cash 400 and bank 100.
C21_Witness ==
    \E p \in Tasks :
        /\ tasks[p].cmd = "withdraw" /\ tasks[p].msg = "InvalidOrInsufficientBank"
        /\ tasks[p].amount = 500 /\ tasks[p].shown_bank = 100
        /\ user_data[tasks[p].user].cash = 400
        /\ user_data[tasks[p].user].bank = 100

\* C22: the clock readings of two successful executions of a timed command of
\* kind K on one account differ by at least the interval of K: a handler that
\* collects reads a clock at least one interval after the reading the last
\* success recorded, and two handlers in flight that both collected K for one
\* account read clocks at least one interval apart, also when the clock was
\* set back in between.
C22_SuccessesOneIntervalApart ==
    /\ \A p \in Tasks :
          (TimedInFlight(p) /\ tasks[p].msg = "Collected" /\ tasks[p].last_time # 0)
          => tasks[p].current_time - tasks[p].last_time
                >= StatedInterval(tasks[p].cmd) * TicksPerSecond
    /\ \A p, q \in Tasks :
          ( /\ p # q
            /\ TimedInFlight(p) /\ TimedInFlight(q)
            /\ tasks[p].msg = "Collected" /\ tasks[q].msg = "Collected"
            /\ tasks[p].user = tasks[q].user /\ tasks[p].cmd = tasks[q].cmd
            /\ tasks[p].current_time <= tasks[q].current_time )
          => tasks[q].current_time - tasks[p].current_time
                >= StatedInterval(tasks[p].cmd) * TicksPerSecond

\* C22 witness: two handlers of the same timed command of one user are in
\* flight and both collected, the second exactly one interval after the first,
\* at the reading the first recorded.
C22_Witness ==
    \E p, q \in Tasks :
        /\ p # q
        /\ TimedInFlight(p) /\ TimedInFlight(q)
        /\ tasks[p].msg = "Collected" /\ tasks[q].msg = "Collected"
        /\ tasks[p].user = tasks[q].user /\ tasks[p].cmd = tasks[q].cmd
        /\ tasks[q].last_time = tasks[p].current_time
        /\ tasks[q].current_time =
              tasks[p].current_time + StatedInterval(tasks[p].cmd) * TicksPerSecond

\* C23: a command invoked by user U, whether it succeeds or fails, leaves
\* every other identity V as it was: V is registered after the step iff it
\* was before, and V's cash, bank and four timestamps are unchanged.
C23_OtherAccountsUntouched ==
    [][\A p \in Tasks, V \in Users :
          (Ran(p) /\ tasks'[p].user # V)
          => /\ (V \in DOMAIN user_data') <=> (V \in DOMAIN user_data)
             /\ V \in DOMAIN user_data => user_data'[V] = user_data[V]]_vars

\* C23 witness: while u2's account holds money in the bank, a coinflip of u1
\* that staked all of u1's cash was lost: u1 has cash 0, u2's account has its
\* 500 in all.
C23_Witness ==
    \E p \in Tasks :
        /\ tasks[p].user = "u1" /\ tasks[p].cmd = "coinflip" /\ tasks[p].msg = "Lost"
        /\ tasks[p].amount = 500
        /\ user_data["u1"].cash = 0
        /\ "u2" \in DOMAIN user_data
        /\ user_data["u2"].cash + user_data["u2"].bank = 500

\* C24: the registration test comes before the tests of the parameters: a
\* coinflip with an invalid choice or a stake <= 0, and a deposit or withdraw
\* with an amount <= 0, by an identity without an account is answered as not
\* registered, with no other error, and changes nothing.
C24_RegistrationTestedFirst ==
    [][\A p \in Tasks :
          ( /\ Ran(p)
            /\ tasks'[p].user \notin DOMAIN user_data
            /\ \/ /\ tasks'[p].cmd = "coinflip"
                  /\ \/ tasks'[p].choice \notin {heads, <<"T", "A", "I", "L", "S">>}
                     \/ tasks'[p].amount <= 0
               \/ /\ tasks'[p].cmd \in {"deposit", "withdraw"}
                  /\ tasks'[p].amount <= 0 )
          => /\ tasks'[p].msg = "NotRegistered"
             /\ ErrorKinds(tasks'[p].msg) = {"NotRegistered"}
             /\ user_data' = user_data]_vars

\* C24 witness: a coinflip with an invalid choice and a negative stake by an
\* identity without an account was answered as not registered.
C24_Witness ==
    \E p \in Tasks :
        /\ tasks[p].cmd = "coinflip" /\ tasks[p].msg = "NotRegistered"
        /\ tasks[p].choice = <<"e", "d", "g", "e">>
        /\ tasks[p].amount = -1
        /\ tasks[p].user \notin DOMAIN user_data

\* The account of u has recorded no success of kind K, or has collected no
\* reward at all since register created it.
NotUsedYet(u, K) ==
    \/ user_data[u][LastField(K)] = 0
    \/ user_data[u].cash = starter_cash /\ user_data[u].bank = 0

\* C25: registration starts no cooldown.  A timed command of kind K with
\* interval I invoked on an account that has not yet succeeded with K collects
\* iff the clock reading is at least I, also at the very reading at which the
\* account was registered, and is refused iff the reading is below I.
C25_RegistrationStartsNoCooldown ==
    [][\A p \in Tasks, u \in DOMAIN user_data :
          ( /\ Ran(p)
            /\ tasks'[p].user = u
            /\ tasks'[p].cmd \in Kinds
            /\ NotUsedYet(u, tasks'[p].cmd) )
          => LET I == StatedInterval(tasks'[p].cmd) * TicksPerSecond
             IN IF clock >= I
                THEN tasks'[p].msg = "Collected"
                ELSE tasks'[p].msg = "NotReady" /\ user_data' = user_data]_vars

\* C25 witness: the register of a user is still sending its welcome when a
\* timed command of the same user, invoked at the same clock reading, which is
\* exactly the interval of its kind, collects on the account's timestamp 0.
C25_Witness ==
    \E p, q \in Tasks :
        /\ tasks[p].cmd = "register" /\ tasks[p].msg = "Welcome"
        /\ TimedInFlight(q) /\ tasks[q].msg = "Collected"
        /\ tasks[q].user = tasks[p].user
        /\ tasks[q].last_time = 0
        /\ tasks[q].current_time = StatedInterval(tasks[q].cmd) * TicksPerSecond
        /\ clock = tasks[q].current_time
        /\ issued = 2

\* The timed command of kind K is ready on the account of u: the clock has
\* reached lastUsed + I.
Ready(u, K) ==
    /\ u \in DOMAIN user_data
    /\ clock >= user_data[u][LastField(K)] + StatedInterval(K) * TicksPerSecond

\* The timed command of kind K is blocked on the account of u.
Blocked(u, K) ==
    /\ u \in DOMAIN user_data
    /\ clock < user_data[u][LastField(K)] + StatedInterval(K) * TicksPerSecond

\* The clock of this run has a reading at or after the end of the cooldown
\* of kind K of u.
ClockReachesEnd(u, K) ==
    \E t \in readings :
        t >= user_data[u][LastField(K)] + StatedInterval(K) * TicksPerSecond

JustMoved(p, msg) ==
    /\ tasks[p].pc = "sending"
    /\ tasks[p].msg = msg
    /\ user_data[tasks[p].user].cash = tasks[p].shown_cash
    /\ user_data[tasks[p].user].bank = tasks[p].shown_bank

\* C27: deposit and withdraw are inverse.  A withdraw of n that follows a
\* deposit of n on the same account succeeds and restores the cash and the
\* bank the account had before the deposit; a deposit of n that follows a
\* withdraw of n succeeds and restores the cash and the bank the account had
\* before the withdraw.
C27_DepositWithdrawInverse ==
    [][\A p, q \in Tasks :
          LET u == tasks[p].user
              n == tasks[p].amount
          IN /\ ( /\ p # q
                  /\ JustMoved(p, "Deposited")
                  /\ RanFor(q, u, "withdraw") /\ tasks'[q].amount = n )
                => /\ tasks'[q].msg = "Withdrawn"
                   /\ user_data'[u].cash = tasks[p].shown_cash + n
                   /\ user_data'[u].bank = tasks[p].shown_bank - n
             /\ ( /\ p # q
                  /\ JustMoved(p, "Withdrawn")
                  /\ RanFor(q, u, "deposit") /\ tasks'[q].amount = n )
                => /\ tasks'[q].msg = "Deposited"
                   /\ user_data'[u].cash = tasks[p].shown_cash - n
                   /\ user_data'[u].bank = tasks[p].shown_bank + n]_vars

\* C27 witness: a new account deposited its whole cash of 500 and withdrew 500
\* right after: both handlers are in flight, the deposit showed cash 0 and
\* bank 500, and the account is back at cash 500 and bank 0.
C27_Witness ==
    \E p, q \in Tasks :
        /\ tasks[p].cmd = "deposit" /\ tasks[p].msg = "Deposited"
        /\ tasks[p].amount = 500
        /\ tasks[p].shown_cash = 0 /\ tasks[p].shown_bank = 500
        /\ tasks[q].cmd = "withdraw" /\ tasks[q].msg = "Withdrawn"
        /\ tasks[q].amount = 500
        /\ tasks[q].shown_cash = 500 /\ tasks[q].shown_bank = 0
        /\ tasks[q].user = tasks[p].user
        /\ user_data[tasks[p].user].cash = 500
        /\ user_data[tasks[p].user].bank = 0
        /\ issued = 3

\* The lower-case letters of heads and tails, each with its upper-case letter.
CasePairs ==
    {<<"h", "H">>, <<"e", "E">>, <<"a", "A">>, <<"d", "D">>, <<"s", "S">>,
     <<"t", "T">>, <<"i", "I">>, <<"l", "L">>}

\* The string c spells the lower-case word w in some mix of upper and lower
\* case.
SpellsIgnoringCase(c, w) ==
    /\ Len(c) = Len(w)
    /\ \A i \in 1..Len(w) : c[i] = w[i] \/ <<w[i], c[i]>> \in CasePairs

\* C28: the choice of a coinflip is matched without regard to case: every
\* upper, lower or mixed-case spelling of heads or of tails is accepted and
\* wins iff the coin shows the word it spells, and every other string is
\* answered as an invalid choice.
C28_ChoiceIgnoresCase ==
    \A p \in Tasks :
        CoinflipInFlight(p) =>
            LET c == tasks[p].choice
                Resolves(w) ==
                    /\ tasks[p].msg # "InvalidChoice"
                    /\ tasks[p].msg \in {"Won", "Lost"}
                          => /\ tasks[p].coin_result \in {heads, tails}
                             /\ (tasks[p].msg = "Won") <=> (tasks[p].coin_result = w)
            IN /\ SpellsIgnoringCase(c, heads) => Resolves(heads)
               /\ SpellsIgnoringCase(c, tails) => Resolves(tails)
               /\ (~SpellsIgnoringCase(c, heads) /\ ~SpellsIgnoringCase(c, tails))
                     => tasks[p].msg = "InvalidChoice"

\* C28 witness: a coinflip on "tAiLs" won with the coin on tails while a
\* coinflip on "heads " with a trailing space was answered as an invalid
\* choice.
C28_Witness ==
    \E p, q \in Tasks :
        /\ CoinflipInFlight(p) /\ CoinflipInFlight(q)
        /\ tasks[p].choice = <<"t", "A", "i", "L", "s">>
        /\ tasks[p].msg = "Won" /\ tasks[p].coin_result = tails
        /\ tasks[q].choice = <<"h", "e", "a", "d", "s", " ">>
        /\ tasks[q].msg = "InvalidChoice"

\* The messages of the implemented commands.
Responses ==
    {"Welcome", "AlreadyRegistered", "NotRegistered", "Balance", "Collected",
     "NotReady", "InvalidChoice", "BetNotPositive", "OnlyHaveCash", "Won", "Lost",
     "InvalidOrInsufficientCash", "Deposited", "InvalidOrInsufficientBank",
     "Withdrawn"}

\* C29: every invocation of an implemented command sends exactly one
\* response.  The step that dispatches an invocation takes one handler, and no
\* other, to the sending of one message; a handler that is sending does
\* nothing more than complete and return, so it sends no second message; and
\* whatever the invocation changes is in the account when the message is
\* sent: the message shows the cash and the bank the account then has, and
\* the completion of the sending changes no account.
C29_ExactlyOneResponse ==
    [][/\ issued' # issued
          => \E p \in Tasks :
                /\ Ran(p)
                /\ \A q \in Tasks \ {p} : tasks'[q] = tasks[q]
                /\ tasks'[p].cmd \in ImplementedCommands
                      => tasks'[p].msg \in Responses
       /\ \A p \in Tasks :
             (tasks[p].pc = "sending" /\ tasks'[p] # tasks[p])
             => (tasks'[p] = Idle /\ user_data' = user_data /\ issued' = issued)
       /\ \A p \in Tasks :
             Ran(p) =>
                LET u == tasks'[p].user
                    msg == tasks'[p].msg
                IN /\ msg \in {"Welcome", "Balance", "Collected", "Won", "Lost",
                               "Deposited", "Withdrawn"}
                         => tasks'[p].shown_cash = user_data'[u].cash
                   /\ msg \in {"Balance", "Deposited", "Withdrawn"}
                         => tasks'[p].shown_bank = user_data'[u].bank]_vars

\* C29 witness: all invocations of the run were dispatched; one, a timed
\* command refused on its cooldown, and another of the same user, a deposit
\* that succeeded, are each sending their one message, and the deposit's shows
\* the cash and the bank of the account.
C29_Witness ==
    \E p, q \in Tasks :
        /\ tasks[p].pc = "sending" /\ tasks[p].msg = "NotReady"
        /\ tasks[q].pc = "sending" /\ tasks[q].msg = "Deposited"
        /\ tasks[q].user = tasks[p].user
        /\ tasks[q].shown_cash = user_data[tasks[q].user].cash
        /\ tasks[q].shown_bank = user_data[tasks[q].user].bank
        /\ issued = budget
====
